---------------------------- MODULE Spec2Model ----------------------------
(***************************************************************************)
(* A model of src/scrapers/flipkart_scraper.py (class FlipkartScraper).    *)
(*                                                                         *)
(* Text is modelled as a sequence of characters, one string per character. *)
(* The rupee sign U+20B9 is written "Rs" and the star glyph U+2605 is      *)
(* written "*"; each is a single character of the text.                    *)
(*                                                                         *)
(* A markup element is a record [tag, attrs, strings, children]: attrs is  *)
(* the element's attribute dictionary (a function from attribute names to  *)
(* texts), strings are its direct text nodes and children its child        *)
(* elements, in document order.  Pages are two levels deep: the elements   *)
(* of the page, and the child elements of each.                            *)
(*                                                                         *)
(* A product dictionary is a function from its keys to their values.  The  *)
(* keys productId, description, category and brand (lines 170-174) are     *)
(* left out: their values cannot raise and nothing reads them.             *)
(***************************************************************************)
EXTENDS Integers, Sequences, FiniteSets, TLC

VARIABLES
    \* search_products
    pc, query, max_results, pages_to_scrape, page, products, response,
    exc, sleeps, trace, result,
    \* parse_search_results, called on its own
    html, soup_raises, product_containers, page_products, ppc,
    \* extract_product_info, called on its own
    container, product, epc

vars == <<pc, query, max_results, pages_to_scrape, page, products, response,
          exc, sleeps, trace, result,
          html, soup_raises, product_containers, page_products, ppc,
          container, product, epc>>

searchVars == <<pc, max_results, pages_to_scrape, page, products, response,
                exc, sleeps, trace, result>>
parseVars == <<html, soup_raises, product_containers, page_products, ppc>>
extractVars == <<container, product, epc>>

---------------------------------------------------------------------------
(* Bounds of the model. *)

\* Longest container (number of child elements) extract_product_info is given.
MaxNodes == 3
\* Longest repeated pattern of page elements, and the most repetitions of it.
MaxPattern == 2
MaxReps == 26
\* Largest max_results search_products is called with.
MaxMaxResults == 30

---------------------------------------------------------------------------
(* Characters and the regular expressions of the source. *)

Rupee == "Rs"
Star == "*"
Digits == <<"0", "1", "2", "3", "4", "5", "6", "7", "8", "9">>
UpperCase == <<"A", "B", "C", "D", "E", "F", "G", "H", "I", "J", "K", "L", "M",
               "N", "O", "P", "Q", "R", "S", "T", "U", "V", "W", "X", "Y", "Z">>
LowerCase == <<"a", "b", "c", "d", "e", "f", "g", "h", "i", "j", "k", "l", "m",
               "n", "o", "p", "q", "r", "s", "t", "u", "v", "w", "x", "y", "z">>
Whitespace == {" "}

IsDigit(c) == \E i \in 1..10 : Digits[i] = c
DigitVal(c) == (CHOOSE i \in 1..10 : Digits[i] = c) - 1

\* re.I: a character compared without regard to case.
Lower(c) ==
    IF \E i \in 1..26 : UpperCase[i] = c
    THEN LowerCase[CHOOSE i \in 1..26 : UpperCase[i] = c]
    ELSE c

\* re.compile(r'.*word.*', re.I) searched in s: s contains word, any case.
ContainsCI(s, word) ==
    \E i \in 1..(Len(s) - Len(word) + 1) :
        \A k \in 1..Len(word) : Lower(s[i + k - 1]) = word[k]

StartsWith(s, prefix) ==
    /\ Len(s) >= Len(prefix)
    /\ \A k \in 1..Len(prefix) : s[k] = prefix[k]

Min(a, b) == IF a <= b THEN a ELSE b

\* s[:n]
Take(s, n) == SubSeq(s, 1, Min(Len(s), n))

\* The first index of the sequence of booleans that holds TRUE, 0 when none does.
FirstTrue(flags) ==
    IF \E i \in 1..Len(flags) : flags[i]
    THEN CHOOSE i \in 1..Len(flags) : flags[i] /\ \A j \in 1..(i - 1) : ~flags[j]
    ELSE 0

\* The first index of text t whose character is in the set S, 0 when none is.
FirstIn(t, S) == FirstTrue([i \in 1..Len(t) |-> t[i] \in S])

\* The concatenation of a sequence of sequences (halved, to keep the
\* recursion shallow).
RECURSIVE Flatten(_)
Flatten(ss) ==
    IF Len(ss) = 0 THEN <<>>
    ELSE IF Len(ss) = 1 THEN ss[1]
    ELSE LET half == Len(ss) \div 2
         IN  Flatten(SubSeq(ss, 1, half)) \o Flatten(SubSeq(ss, half + 1, Len(ss)))

\* The longest run of characters of the set S that starts at index i of t.
RunFrom(t, i, S) ==
    LET last == CHOOSE j \in (i - 1)..Len(t) :
                    /\ \A k \in i..j : t[k] \in S
                    /\ (j = Len(t) \/ t[j + 1] \notin S)
    IN  SubSeq(t, i, last)

DigitSet == {Digits[i] : i \in 1..10}
\* [\d,] and [0-9.]
PriceChars == DigitSet \cup {","}
RatingChars == DigitSet \cup {"."}
IsPriceChar(c) == c \in PriceChars
IsRatingChar(c) == c \in RatingChars
NotComma(c) == c # ","

\* r'₹[\d,]+' matches at index i of t.
PriceAt(t, i) == t[i] = Rupee /\ i < Len(t) /\ IsPriceChar(t[i + 1])
\* re.compile(r'₹[\d,]+').search(t)
PriceSearch(t) == \E i \in 1..Len(t) : PriceAt(t, i)
\* re.search(r'₹([\d,]+)', t).group(1), for a t the pattern is found in.
PriceGroup(t) ==
    LET i == CHOOSE i \in 1..Len(t) :
                 PriceAt(t, i) /\ \A j \in 1..(i - 1) : ~PriceAt(t, j)
    IN  RunFrom(t, i + 1, PriceChars)

\* re.compile(r'[0-9.]+\s*★').search(t)
RatingSearch(t) ==
    \E j \in 1..Len(t) : \E k \in (j + 1)..Len(t) :
        /\ IsRatingChar(t[j])
        /\ \A m \in (j + 1)..(k - 1) : t[m] \in Whitespace
        /\ t[k] = Star
\* re.search(r'([0-9.]+)', t).group(1), for a t holding such a character.
RatingGroup(t) ==
    LET i == FirstIn(t, RatingChars)
    IN  RunFrom(t, i, RatingChars)

\* int(s) of a string of digits; int('') raises ValueError.
RECURSIVE IntOf(_)
IntOf(s) == IF s = <<>> THEN 0
            ELSE 10 * IntOf(SubSeq(s, 1, Len(s) - 1)) + DigitVal(s[Len(s)])
IntRaises(s) == s = <<>>

\* int(group.replace(',', ''))
PriceValue(group) == IntOf(SelectSeq(group, NotComma))
PriceRaises(group) == IntRaises(SelectSeq(group, NotComma))

\* float(s) of a run of digits and dots: ValueError unless it holds a digit
\* and at most one dot.  The value is the fraction num/den, den a power of 10.
IsDot(c) == c = "."
FloatRaises(s) ==
    \/ Len(SelectSeq(s, IsDot)) > 1
    \/ Len(SelectSeq(s, IsDigit)) = 0
RECURSIVE Pow10(_)
Pow10(n) == IF n = 0 THEN 1 ELSE 10 * Pow10(n - 1)
FloatOf(s) ==
    LET dot == FirstIn(s, {"."})
        decimals == IF dot = 0 THEN 0 ELSE Len(s) - dot
    IN  [num |-> IntOf(SelectSeq(s, IsDigit)), den |-> Pow10(decimals)]

\* str.strip() of a text.
IsSpace(c) == c \in Whitespace
NotSpace(c) == c \notin Whitespace
Strip(t) ==
    LET first == FirstIn(t, {t[i] : i \in 1..Len(t)} \ Whitespace)
    IN  IF first = 0 THEN <<>>
        ELSE SubSeq(t, first,
                    CHOOSE j \in first..Len(t) :
                        NotSpace(t[j]) /\ \A k \in (j + 1)..Len(t) : IsSpace(t[k]))

\* round(x) of the float x = num/den, den > 0: the nearest integer, a tie
\* going to the even one.  (On an exact tie the float product of line 181 can
\* fall just short of the half, and round() then gives the lower neighbour;
\* for the prices of NodeSet the floats give what this operator gives.)
Round(num, den) ==
    LET q == num \div den
        r == num % den
    IN  IF 2 * r < den THEN q
        ELSE IF 2 * r > den THEN q + 1
        ELSE IF q % 2 = 0 THEN q ELSE q + 1

---------------------------------------------------------------------------
(* Markup elements and the searches of BeautifulSoup the source uses. *)

NoAttrs == [k \in {} |-> <<>>]
Elem(tag, attrs, strings, children) ==
    [tag |-> tag, attrs |-> attrs, strings |-> strings, children |-> children]

HasAttr(e, name) == name \in DOMAIN e.attrs
\* Tag.string: the text of an element that holds exactly one text node.
HasString(e) == Len(e.strings) = 1 /\ e.children = <<>>
\* The text nodes below a container, in document order.
TextNodes(c) == c.strings \o Flatten([i \in 1..Len(c.children) |-> c.children[i].strings])
\* Tag.get_text(strip=True): the stripped, non-empty text nodes, joined.
GetText(e) == Flatten([i \in 1..Len(e.strings) |-> Strip(e.strings[i])])
\* str(tag): the markup of the element, which holds its attribute values
\* (here in the order of AttrOrder) and then its text.
AttrOrder == <<"class", "data-id", "href", "src">>
Str(e) ==
    <<"<">>
    \o Flatten([i \in 1..Len(AttrOrder) |->
                   IF HasAttr(e, AttrOrder[i])
                   THEN e.attrs[AttrOrder[i]] \o <<"\"">> ELSE <<>>])
    \o <<">">> \o Flatten(e.strings) \o <<"<">>

W_title == <<"t", "i", "t", "l", "e">>
W_product == <<"p", "r", "o", "d", "u", "c", "t">>
W_item == <<"i", "t", "e", "m">>
\* class_=re.compile(r'.*word.*', re.I)
ClassMatches(e, word) == HasAttr(e, "class") /\ ContainsCI(e.attrs["class"], word)

\* container.find(tag, class_=re.compile(r'.*word.*', re.I)): an index, or 0
FindByClass(c, tag, word) ==
    FirstTrue([i \in 1..Len(c.children) |->
                  c.children[i].tag = tag /\ ClassMatches(c.children[i], word)])
\* container.find(tag)
FindTag(c, tag) == FirstTrue([i \in 1..Len(c.children) |-> c.children[i].tag = tag])
\* container.find(tag, string=re.compile(r'₹[\d,]+'))
FindPriceTag(c, tag) ==
    FirstTrue([i \in 1..Len(c.children) |->
                  /\ c.children[i].tag = tag
                  /\ HasString(c.children[i])
                  /\ PriceSearch(c.children[i].strings[1])])
\* container.find(text=re.compile(r'₹[\d,]+')): an index of TextNodes, or 0
FindPriceText(c) ==
    FirstTrue([i \in 1..Len(TextNodes(c)) |-> PriceSearch(TextNodes(c)[i])])
\* container.find(text=re.compile(r'[0-9.]+\s*★'))
FindRatingText(c) ==
    FirstTrue([i \in 1..Len(TextNodes(c)) |-> RatingSearch(TextNodes(c)[i])])
\* container.find('a', href=True)
FindLink(c) ==
    FirstTrue([i \in 1..Len(c.children) |->
                  c.children[i].tag = "a" /\ HasAttr(c.children[i], "href")])

---------------------------------------------------------------------------
(* Product dictionaries. *)

EmptyDict == [k \in {} |-> 0]
None == [None |-> TRUE]
IsNone(p) == "None" \in DOMAIN p
\* bool(product.get(key)) for a key that holds a number, and one that holds text
TruthyInt(p, key) == key \in DOMAIN p /\ p[key] # 0
TruthyText(p, key) == key \in DOMAIN p /\ p[key] # <<>>
\* product.get(key, default)
DictGet(p, key, default) == IF key \in DOMAIN p THEN p[key] ELSE default

BaseUrl == <<"h", "t", "t", "p", "s", ":", "/", "/", "w", "w", "w", ".",
             "f", "l", "i", "p", "k", "a", "r", "t", ".", "c", "o", "m">>
Https == <<"h", "t", "t", "p", "s", ":">>
TitleMax == 100

---------------------------------------------------------------------------
(* extract_product_info, field by field. *)

\* Lines 108-117: the title element and product['title'].
TitleElem(c) ==
    LET a == FindByClass(c, "a", W_title)
        d == FindByClass(c, "div", W_title)
        s == FindByClass(c, "span", W_title)
        h3 == FindTag(c, "h3")
        h2 == FindTag(c, "h2")
    IN  IF a # 0 THEN a ELSE IF d # 0 THEN d ELSE IF s # 0 THEN s
        ELSE IF h3 # 0 THEN h3 ELSE h2
ExtractTitle(c) ==
    IF TitleElem(c) # 0
    THEN "title" :> Take(GetText(c.children[TitleElem(c)]), TitleMax)
    ELSE EmptyDict

\* Lines 120-127: str(price_elem), as a sequence of no or one text.
PriceText(c) ==
    LET d == FindPriceTag(c, "div")
        s == FindPriceTag(c, "span")
        t == FindPriceText(c)
    IN  IF d # 0 THEN <<Str(c.children[d])>>
        ELSE IF s # 0 THEN <<Str(c.children[s])>>
        ELSE IF t # 0 THEN <<TextNodes(c)[t]>>
        ELSE <<>>
\* Lines 128-130: product['sellingPrice'], and whether int() raises there.
PriceMatched(c) == PriceText(c) # <<>> /\ PriceSearch(PriceText(c)[1])
PriceFails(c) == PriceMatched(c) /\ PriceRaises(PriceGroup(PriceText(c)[1]))
ExtractPrice(c) ==
    IF PriceMatched(c)
    THEN "sellingPrice" :> PriceValue(PriceGroup(PriceText(c)[1]))
    ELSE EmptyDict

\* A guard that keeps any price other than the selling price.
MrpKeptIfDifferent(mrp_price, selling) == mrp_price # selling

\* Line 139: the guard that keeps mrp_price.
MrpKept(mrp_price, selling) == mrp_price > selling
\* Lines 133-140: product['mrp'], and whether int() raises there.
MrpFails(c) ==
    FindPriceText(c) # 0 /\ PriceRaises(PriceGroup(TextNodes(c)[FindPriceText(c)]))
ExtractMrp(c, p) ==
    LET t == FindPriceText(c)
        mrp_price == PriceValue(PriceGroup(TextNodes(c)[t]))
    IN  IF t # 0 /\ MrpKept(mrp_price, DictGet(p, "sellingPrice", 0))
        THEN "mrp" :> mrp_price
        ELSE EmptyDict

\* Lines 143-150: product['imageUrl'].
ExtractImage(c) ==
    LET i == FindTag(c, "img")
        src == c.children[i].attrs["src"]
    IN  IF i # 0 /\ HasAttr(c.children[i], "src") /\ src # <<>>
        THEN "imageUrl" :> (IF StartsWith(src, <<"/", "/">>) THEN Https \o src
                            ELSE IF StartsWith(src, <<"/">>) THEN BaseUrl \o src
                            ELSE src)
        ELSE EmptyDict

\* Lines 153-159: product['url'] and product['flipkartUrl'].
ExtractLink(c) ==
    LET i == FindLink(c)
        href == c.children[i].attrs["href"]
        product_url == IF StartsWith(href, <<"/">>) THEN BaseUrl \o href ELSE href
    IN  IF i # 0
        THEN ("url" :> product_url) @@ ("flipkartUrl" :> product_url)
        ELSE EmptyDict

\* Lines 162-166: product['rating'], and whether float() raises there.
RatingFails(c) ==
    FindRatingText(c) # 0 /\ FloatRaises(RatingGroup(TextNodes(c)[FindRatingText(c)]))
ExtractRating(c) ==
    LET t == FindRatingText(c)
    IN  IF t # 0 THEN "rating" :> FloatOf(RatingGroup(TextNodes(c)[t]))
        ELSE EmptyDict

\* Lines 169-177: the default values.
Defaults(q) ==
    [description |-> <<"Real-time ", q,
                       " product from Flipkart with latest pricing and availability.">>,
     inStock |-> TRUE, availability |-> "In Stock", source |-> "flipkart_live"]

\* Lines 180-182: product['discount'].
ExtractDiscount(p) ==
    IF TruthyInt(p, "mrp") /\ TruthyInt(p, "sellingPrice")
    THEN "discount" :> Round((p["mrp"] - p["sellingPrice"]) * 100, p["mrp"])
    ELSE EmptyDict

\* Line 184: the validity gate.
Retained(p) == TruthyText(p, "title") /\ TruthyInt(p, "sellingPrice")

\* A handler around the price only: a rating or MRP text that cannot be
\* parsed leaves the record standing.
RaisesOnPriceOnly(c) == PriceFails(c)

\* Lines 104, 186-187: an exception anywhere in the function body.
Raises(c) == PriceFails(c) \/ MrpFails(c) \/ RatingFails(c)

\* Lines 102-187.
extract_product_info(c, q) ==
    IF Raises(c) THEN None
    ELSE
        LET p2 == ExtractTitle(c) @@ ExtractPrice(c)
            p7 == p2 @@ ExtractMrp(c, p2) @@ ExtractImage(c) @@ ExtractLink(c)
                     @@ ExtractRating(c) @@ Defaults(q)
            p8 == p7 @@ ExtractDiscount(p7)
        IN  IF Retained(p8) THEN p8 ELSE None

---------------------------------------------------------------------------
(* parse_search_results. *)

ContainerCap == 25

\* The elements of a page in document order: each element of the page, then
\* its children.
DocOrder(h) == Flatten([i \in 1..Len(h) |-> <<h[i]>> \o h[i].children])

\* The indices of the sequence of booleans that hold TRUE, in increasing order.
Where(flags) == Flatten([i \in 1..Len(flags) |-> IF flags[i] THEN <<i>> ELSE <<>>])

\* soup.find_all('div', {'data-id': True}): positions in DocOrder(h)
FindAllDataId(h) ==
    LET doc == DocOrder(h)
    IN  Where([i \in 1..Len(doc) |->
                  doc[i].tag = "div" /\ HasAttr(doc[i], "data-id")])
\* soup.find_all('div', class_=re.compile(r'.*word.*', re.I))
FindAllByClass(h, word) ==
    LET doc == DocOrder(h)
    IN  Where([i \in 1..Len(doc) |->
                  doc[i].tag = "div" /\ ClassMatches(doc[i], word)])

\* The three searches joined instead of tried in turn.
FindContainersUnion(h) ==
    FindAllDataId(h) \o FindAllByClass(h, W_product) \o FindAllByClass(h, W_item)

\* Lines 83-87: a or b or c, an empty list being false.
FindContainers(h) ==
    IF FindAllDataId(h) # <<>> THEN FindAllDataId(h)
    ELSE IF FindAllByClass(h, W_product) # <<>> THEN FindAllByClass(h, W_product)
    ELSE FindAllByClass(h, W_item)

\* Line 89: product_containers[:25]
Capped(containers) == Take(containers, ContainerCap)

\* Line 92: the condition under which the product is appended.
Appended(p) == ~IsNone(p) /\ TruthyText(p, "title") /\ TruthyInt(p, "price")

\* Lines 89-95: the products of the containers at positions cs of the page.
ParseLoop(h, cs, q) ==
    Flatten([k \in 1..Len(cs) |->
                LET p == extract_product_info(DocOrder(h)[cs[k]], q)
                IN  IF Appended(p) THEN <<p>> ELSE <<>>])

\* Lines 75-100; raises: BeautifulSoup or find_all raises on this markup.
parse_search_results(h, q, raises) ==
    IF raises THEN <<>> ELSE ParseLoop(h, Capped(FindContainers(h)), q)

---------------------------------------------------------------------------
(* The inputs the model draws from. *)

Queries == {"redmi note 12", "shoes"}

T_Redmi == <<"R", "e", "d", "m", "i">>
T_Blank == <<" ">>
T_14999 == <<Rupee, "1", "4", ",", "9", "9", "9">>
T_19999 == <<" ", Rupee, "1", "9", ",", "9", "9", "9", " ">>
T_200 == <<"M", "R", "P", " ", Rupee, "2", "0", "0">>
T_99 == <<Rupee, "9", "9">>
T_0 == <<Rupee, "0">>
T_NoDigits == <<Rupee, ",">>
T_Rated == <<"4", ".", "3", " ", Star>>
T_MisRated == <<"4", ".", "3", ".", "1", Star>>
C_Title == <<"_", "4", "r", "R", " ", "T", "i", "t", "l", "e">>
C_Price == <<"_", "3", "0", "j", "e", "q">>
U_Img == <<"/", "/", "i", "m", "g", ".", "x">>
U_Path == <<"/", "p", "/", "1">>

Leaf(tag, attrs, text) == Elem(tag, attrs, <<text>>, <<>>)

NodeSet ==
    { Leaf("a", [class |-> C_Title, href |-> U_Path], T_Redmi),
      Leaf("h2", NoAttrs, T_Redmi),
      Leaf("div", [class |-> C_Title], T_Blank),
      Leaf("div", [class |-> C_Price], T_14999),
      Leaf("div", NoAttrs, T_19999),
      Leaf("span", NoAttrs, T_19999),
      Leaf("span", NoAttrs, T_200),
      Leaf("div", NoAttrs, T_99),
      Leaf("div", NoAttrs, T_0),
      Leaf("p", NoAttrs, T_NoDigits),
      Leaf("span", NoAttrs, T_Rated),
      Leaf("span", NoAttrs, T_MisRated),
      Elem("img", [src |-> U_Img], <<>>, <<>>) }

Containers ==
    { Elem("div", ("data-id" :> <<"1">>), <<>>, kids) :
        kids \in UNION { [1..n -> NodeSet] : n \in 0..MaxNodes } }

---------------------------------------------------------------------------
(* extract_product_info called on one container. *)

SearchIdle ==
    /\ pc = "idle" /\ max_results = 0 /\ pages_to_scrape = 0 /\ page = 0
    /\ products = <<>> /\ response = <<>> /\ exc = <<>> /\ sleeps = 0
    /\ trace = <<>> /\ result = None
ParseIdle ==
    /\ ppc = "idle" /\ html = <<>> /\ soup_raises = FALSE
    /\ product_containers = <<>> /\ page_products = <<>>
ExtractIdle ==
    /\ epc = "idle" /\ container = None /\ product = None

InitExtract ==
    /\ query \in Queries
    /\ container \in Containers
    /\ product = None
    /\ epc = "call"
    /\ SearchIdle /\ ParseIdle

Extract ==
    /\ epc = "call"
    /\ product' = extract_product_info(container, query)
    /\ epc' = "returned"
    /\ UNCHANGED <<query, container, searchVars, parseVars>>

NextExtract == Extract

SpecExtract == InitExtract /\ [][NextExtract]_vars

---------------------------------------------------------------------------
(* parse_search_results called on one page. *)

Body_Valid ==
    << Leaf("a", [class |-> C_Title, href |-> U_Path], T_Redmi),
       Leaf("div", [class |-> C_Price], T_14999) >>
Body_NoPrice == << Leaf("h2", NoAttrs, T_Redmi) >>
Body_Inner ==
    << Leaf("h2", NoAttrs, T_Redmi),
       Leaf("div", [class |-> <<"I", "t", "e", "m", "-", "p", "r", "i", "c", "e">>], T_99) >>
C_Card == <<"P", "r", "o", "d", "u", "c", "t", "-", "c", "a", "r", "d">>
C_Row == <<"l", "i", "s", "t", "I", "T", "E", "M">>

ElemSet ==
    { Elem("div", ("data-id" :> <<"1">>), <<>>, Body_Valid),
      Elem("div", ("data-id" :> <<>>), <<>>, Body_NoPrice),
      Elem("div", [class |-> C_Card], <<>>, Body_Inner),
      Elem("div", [class |-> C_Row], <<>>, Body_Valid),
      Elem("li", ("data-id" :> <<"2">>), <<>>, Body_Valid),
      Elem("li", [class |-> C_Card], <<>>, Body_Valid),
      Elem("div", NoAttrs, <<>>, Body_Inner) }

Repeat(s, n) == Flatten([i \in 1..n |-> s])

Reps == {1, 2, 13, 25, MaxReps}
Pages ==
    { Repeat(pattern, n) :
        pattern \in UNION { [1..m -> ElemSet] : m \in 1..MaxPattern }, n \in Reps }

InitParse ==
    /\ query \in Queries
    /\ html \in Pages
    /\ soup_raises \in BOOLEAN
    /\ product_containers = <<>>
    /\ page_products = <<>>
    /\ ppc = "call"
    /\ SearchIdle /\ ExtractIdle

\* Lines 80-87.
Find ==
    /\ ppc = "call" /\ ~soup_raises
    /\ product_containers' = Capped(FindContainers(html))
    /\ ppc' = "loop"
    /\ UNCHANGED <<query, html, soup_raises, page_products, searchVars, extractVars>>

\* Lines 89-95, 100.
Loop ==
    /\ ppc = "loop"
    /\ page_products' = ParseLoop(html, product_containers, query)
    /\ ppc' = "returned"
    /\ UNCHANGED <<query, html, soup_raises, product_containers, searchVars, extractVars>>

\* Lines 97-100.
ParseExcept ==
    /\ ppc = "call" /\ soup_raises
    /\ ppc' = "returned"
    /\ UNCHANGED <<query, html, soup_raises, product_containers, page_products,
                   searchVars, extractVars>>

NextParse == Find \/ Loop \/ ParseExcept

SpecParse == InitParse /\ [][NextParse]_vars

---------------------------------------------------------------------------
(* search_products. *)

\* The page count without its cap of 3.
PagesUncapped(m) == (m \div 10) + 1

\* Line 39.
PagesToScrape(m) == Min(3, (m \div 10) + 1)

\* products.append(page_products): the page's list added as one element.
ExtendAppend(ps, page_ps) == Append(ps, page_ps)

\* Line 53: products.extend(page_products)
Extend(ps, page_ps) == ps \o page_ps

\* Lines 58-64.
SuccessEnvelope(ps, m, q) ==
    [success |-> TRUE, products |-> Take(ps, m), total |-> Len(ps),
     query |-> q, source |-> "flipkart_live"]

\* A failure envelope that still reports success.
FailureEnvelopeSuccess(e, q) ==
    [success |-> TRUE, products |-> <<>>, error |-> e, query |-> q]

\* Lines 68-73.
FailureEnvelope(e, q) ==
    [success |-> FALSE, products |-> <<>>, error |-> e, query |-> q]

\* Line 41: the loop goes on to page p, or is over.
LoopHead(p, pages) == IF p <= pages THEN "sleep" ELSE "return"

\* What requests.get can raise (str(e)), and what it can return.
ErrorMessages == {"Connection refused", "Read timed out"}
SearchPages ==
    { Repeat(<<Elem("div", ("data-id" :> <<"1">>), <<>>, Body_Valid)>>, n) : n \in {1, 26} }
Responses ==
    { [status_code |-> 200, text |-> h, unparsable |-> FALSE] : h \in SearchPages }
    \cup { [status_code |-> 200, text |-> <<>>, unparsable |-> TRUE] }
    \cup { [status_code |-> c, text |-> <<>>, unparsable |-> FALSE] : c \in {404, 503} }

\* Line 30: the call, with a result count max_results >= 0.
Init ==
    /\ query \in Queries
    /\ max_results \in 0..MaxMaxResults
    /\ pc = "start"
    /\ pages_to_scrape = 0
    /\ page = 0
    /\ products = <<>>
    /\ response = <<>>
    /\ exc = <<>>
    /\ sleeps = 0
    /\ trace = <<>>
    /\ result = None
    /\ ParseIdle /\ ExtractIdle

\* Lines 33-41.
Start ==
    /\ pc = "start"
    /\ products' = <<>>
    /\ pages_to_scrape' = PagesToScrape(max_results)
    /\ page' = 1
    /\ pc' = LoopHead(1, PagesToScrape(max_results))
    /\ UNCHANGED <<query, max_results, response, exc, sleeps, trace, result,
                   parseVars, extractVars>>

\* Line 45.
Sleep ==
    /\ pc = "sleep"
    /\ sleeps' = sleeps + 1
    /\ pc' = "get"
    /\ UNCHANGED <<query, max_results, pages_to_scrape, page, products, response,
                   exc, trace, result, parseVars, extractVars>>

\* Line 47, requests.get returns.
Get ==
    /\ pc = "get"
    /\ \E r \in Responses : response' = r
    /\ trace' = Append(trace, [page |-> page, outcome |-> "response", page_products |-> <<>>])
    /\ pc' = "check"
    /\ UNCHANGED <<query, max_results, pages_to_scrape, page, products, exc, sleeps,
                   result, parseVars, extractVars>>

\* Line 47, requests.get raises; line 66.
GetRaises ==
    /\ pc = "get"
    /\ \E e \in ErrorMessages : exc' = <<e>>
    /\ trace' = Append(trace, [page |-> page, outcome |-> "raised", page_products |-> <<>>])
    /\ pc' = "except"
    /\ UNCHANGED <<query, max_results, pages_to_scrape, page, products, response,
                   sleeps, result, parseVars, extractVars>>

\* continue in place of break: a status other than 200 skips the page.
BreakSkipsPage ==
    /\ pc = "check"
    /\ response.status_code # 200
    /\ trace' = [trace EXCEPT ![Len(trace)].outcome = "non200"]
    /\ pc' = LoopHead(page + 1, pages_to_scrape)
    /\ page' = page + 1
    /\ UNCHANGED <<query, max_results, pages_to_scrape, products, response,
                   exc, sleeps, result, parseVars, extractVars>>

\* Lines 49-50: the status is not 200.
Break ==
    /\ pc = "check"
    /\ response.status_code # 200
    /\ trace' = [trace EXCEPT ![Len(trace)].outcome = "non200"]
    /\ pc' = "return"
    /\ UNCHANGED <<query, max_results, pages_to_scrape, page, products, response,
                   exc, sleeps, result, parseVars, extractVars>>

\* A loop that also ends when the page could not be parsed.
ProcessStopsOnParseError ==
    /\ pc = "check"
    /\ response.status_code = 200
    /\ LET found == parse_search_results(response.text, query, response.unparsable)
           all == Extend(products, found)
       IN  /\ products' = all
           /\ trace' = [trace EXCEPT ![Len(trace)] =
                          [page |-> page,
                           outcome |-> IF response.unparsable THEN "parse_raised" ELSE "ok",
                           page_products |-> found]]
           /\ IF Len(all) >= max_results \/ response.unparsable
              THEN pc' = "return" /\ page' = page
              ELSE pc' = LoopHead(page + 1, pages_to_scrape) /\ page' = page + 1
    /\ UNCHANGED <<query, max_results, pages_to_scrape, response, exc, sleeps,
                   result, parseVars, extractVars>>

\* Lines 52-56, 41.
Process ==
    /\ pc = "check"
    /\ response.status_code = 200
    /\ LET found == parse_search_results(response.text, query, response.unparsable)
           all == Extend(products, found)
       IN  /\ products' = all
           /\ trace' = [trace EXCEPT ![Len(trace)] =
                          [page |-> page,
                           outcome |-> IF response.unparsable THEN "parse_raised" ELSE "ok",
                           page_products |-> found]]
           /\ IF Len(all) >= max_results
              THEN pc' = "return" /\ page' = page
              ELSE pc' = LoopHead(page + 1, pages_to_scrape) /\ page' = page + 1
    /\ UNCHANGED <<query, max_results, pages_to_scrape, response, exc, sleeps,
                   result, parseVars, extractVars>>

\* Lines 58-64.
Return ==
    /\ pc = "return"
    /\ result' = SuccessEnvelope(products, max_results, query)
    /\ pc' = "done"
    /\ UNCHANGED <<query, max_results, pages_to_scrape, page, products, response,
                   exc, sleeps, trace, parseVars, extractVars>>

\* Lines 66-73.
Except ==
    /\ pc = "except"
    /\ result' = FailureEnvelope(exc[1], query)
    /\ pc' = "done"
    /\ UNCHANGED <<query, max_results, pages_to_scrape, page, products, response,
                   exc, sleeps, trace, parseVars, extractVars>>

Next == Start \/ Sleep \/ Get \/ GetRaises \/ Break \/ Process \/ Return \/ Except

Spec == Init /\ [][Next]_vars

---------------------------------------------------------------------------
(* Properties of extract_product_info (checked under SpecExtract). *)

\* The prices written in the text nodes of the container.
PricesIn(c) ==
    { PriceValue(PriceGroup(TextNodes(c)[i])) :
        i \in { j \in 1..Len(TextNodes(c)) :
                  PriceSearch(TextNodes(c)[j]) /\ ~PriceRaises(PriceGroup(TextNodes(c)[j])) } }

Abs(x) == IF x < 0 THEN -x ELSE x

\* C7: a returned record has mrp if and only if the container holds a price
\* text whose value is strictly greater than sellingPrice, and mrp is then
\* such a price.
C7_MrpIffGreaterPrice ==
    (epc = "returned" /\ ~IsNone(product)) =>
        LET greater == { v \in PricesIn(container) : v > product["sellingPrice"] }
        IN  IF greater # {}
            THEN "mrp" \in DOMAIN product /\ product["mrp"] \in greater
            ELSE "mrp" \notin DOMAIN product

\* C8: a returned record has a discount only when it has mrp and
\* sellingPrice (both non-zero); the discount is then an integer nearest to
\* (mrp - sellingPrice) / mrp * 100, and lies between 0 and 100.
C8_Discount ==
    (epc = "returned" /\ ~IsNone(product) /\ "discount" \in DOMAIN product) =>
        /\ TruthyInt(product, "mrp")
        /\ TruthyInt(product, "sellingPrice")
        /\ LET d == product["discount"]
               m == product["mrp"]
               sp == product["sellingPrice"]
           IN  /\ 2 * Abs(d * m - 100 * (m - sp)) <= m
               /\ 0 <= d /\ d <= 100

\* C8 witness: the record of a container whose first price text is the
\* greater price carries the discount 25 of 19999 over 14999.
C8_Witness ==
    /\ epc = "returned" /\ ~IsNone(product)
    /\ "discount" \in DOMAIN product
    /\ product["mrp"] = 19999 /\ product["sellingPrice"] = 14999
    /\ product["discount"] = 25

\* C9 as stated: a rating or MRP text that cannot be parsed costs only that
\* field; the record is returned when title and sellingPrice are populated.
C9_FailureCostsOnlyTheField ==
    ( /\ epc = "returned"
      /\ TruthyText(ExtractTitle(container), "title")
      /\ ~PriceFails(container)
      /\ TruthyInt(ExtractPrice(container), "sellingPrice") )
    => ~IsNone(product)

\* C9 as amended: a number text that is found and cannot be parsed makes
\* extract_product_info return None; otherwise the record is returned exactly
\* when title and sellingPrice are populated, and in a returned record each of
\* rating, imageUrl, url and mrp is there or not by its own search alone.
C9_FailureDropsTheRecord ==
    epc = "returned" =>
        /\ (PriceFails(container) \/ MrpFails(container) \/ RatingFails(container))
               => IsNone(product)
        /\ ~(PriceFails(container) \/ MrpFails(container) \/ RatingFails(container))
               => ( ~IsNone(product) <=>
                      /\ TruthyText(ExtractTitle(container), "title")
                      /\ TruthyInt(ExtractPrice(container), "sellingPrice") )
        /\ ~IsNone(product) =>
              /\ "rating" \in DOMAIN product <=> FindRatingText(container) # 0
              /\ "imageUrl" \in DOMAIN product <=> ExtractImage(container) # EmptyDict
              /\ "url" \in DOMAIN product <=> FindLink(container) # 0

\* C9 witness: a container with a title, a price and a rating text "4.3.1*"
\* that float() rejects has been extracted.
C9_Witness ==
    /\ epc = "returned"
    /\ RatingFails(container)
    /\ ~PriceFails(container) /\ ~MrpFails(container)
    /\ TruthyText(ExtractTitle(container), "title")
    /\ TruthyInt(ExtractPrice(container), "sellingPrice")

---------------------------------------------------------------------------
(* Properties of parse_search_results (checked under SpecParse). *)

\* C1: the returned list holds the record of a candidate container if and
\* only if that record has title and sellingPrice populated.
C1_RetainedIffPopulated ==
    (ppc = "returned" /\ ~soup_raises) =>
        page_products =
            Flatten([k \in 1..Len(product_containers) |->
                LET p == extract_product_info(DocOrder(html)[product_containers[k]], query)
                IN  IF ~IsNone(p) /\ TruthyText(p, "title") /\ TruthyInt(p, "sellingPrice")
                    THEN <<p>> ELSE <<>>])

\* The positions of the elements of tier n; of the div elements only, or of
\* the elements of any tag.
TierOf(n, anyTag) ==
    LET doc == DocOrder(html)
    IN  { i \in 1..Len(doc) :
            /\ anyTag \/ doc[i].tag = "div"
            /\ CASE n = 1 -> "data-id" \in DOMAIN doc[i].attrs
                 [] n = 2 -> ClassMatches(doc[i], W_product)
                 [] n = 3 -> ClassMatches(doc[i], W_item) }
FirstTier(anyTag) ==
    IF TierOf(1, anyTag) # {} THEN TierOf(1, anyTag)
    ELSE IF TierOf(2, anyTag) # {} THEN TierOf(2, anyTag)
    ELSE TierOf(3, anyTag)
\* cs lists, in increasing order, the first 25 positions of S (all, if fewer).
IsFirst25(cs, S) ==
    /\ \A k \in 1..Len(cs) : cs[k] \in S
    /\ \A k \in 1..(Len(cs) - 1) : cs[k] < cs[k + 1]
    /\ Len(cs) = Min(Cardinality(S), 25)
    /\ \A i \in S : (\A k \in 1..Len(cs) : cs[k] # i) => \A k \in 1..Len(cs) : cs[k] < i

\* C10 as stated: the containers processed are the first 25, in document
\* order, of the first non-empty tier of elements of any tag.
C10_FirstTierOfElements ==
    (ppc \in {"loop", "returned"} /\ ~soup_raises) =>
        IsFirst25(product_containers, FirstTier(TRUE))

\* C10 as amended: the containers processed are the first 25, in document
\* order, of the first non-empty tier of div elements.
C10_FirstTierOfDivs ==
    (ppc \in {"loop", "returned"} /\ ~soup_raises) =>
        IsFirst25(product_containers, FirstTier(FALSE))

\* C10 witness: a page with no div carrying data-id, more than 25 divs of
\* the 'product' tier and divs of the 'item' tier has been parsed.
C10_Witness ==
    /\ ppc = "returned" /\ ~soup_raises
    /\ TierOf(1, FALSE) = {} /\ TierOf(1, TRUE) # {}
    /\ Cardinality(TierOf(2, FALSE)) > 25
    /\ TierOf(3, FALSE) # {}
    /\ Len(product_containers) = 25

---------------------------------------------------------------------------
(* Properties of search_products (checked under Spec). *)

\* The products parse_search_results returned for the first i requests.
CollectedUpTo(i) == Flatten([k \in 1..i |-> trace[k].page_products])
IsPrefix(a, b) == Len(a) <= Len(b) /\ \A k \in 1..Len(a) : a[k] = b[k]

\* C2 as stated: after an exception while fetching or parsing page k > 1 no
\* further page is fetched, and the products of pages 1..k-1 are in the
\* returned envelope.
C2_ErrorStopsAndKeeps ==
    \A i \in 2..Len(trace) :
        trace[i].outcome \in {"raised", "parse_raised"} =>
            /\ Len(trace) = i
            /\ pc \notin {"sleep", "get"}
            /\ pc = "done" => IsPrefix(CollectedUpTo(i - 1), result.products)

\* C2 as amended: an exception of the GET of page k ends the fetching and
\* the call returns the failure envelope with no products; an exception
\* while parsing page k leaves that page without products and does not end
\* the loop, which stops after it only at the last page or with max_results
\* products collected.
C2_FetchErrorFailsParseErrorGoesOn ==
    \A i \in 1..Len(trace) :
        /\ trace[i].outcome = "raised" =>
              /\ Len(trace) = i
              /\ pc \in {"except", "done"}
              /\ pc = "done" => (result.success = FALSE /\ result.products = <<>>)
        /\ trace[i].outcome = "parse_raised" =>
              /\ trace[i].page_products = <<>>
              /\ (Len(trace) = i /\ pc \in {"return", "done"}) =>
                     \/ i = 3
                     \/ 10 * i > max_results
                     \/ Len(CollectedUpTo(i)) >= max_results

\* C2 witness: page 2 could not be parsed, page 3 was still requested, its
\* GET raised, and the call has returned.
C2_Witness ==
    /\ pc = "done" /\ Len(trace) = 3
    /\ trace[2].outcome = "parse_raised" /\ trace[3].outcome = "raised"

\* C3: once requests.get has raised, the call goes to its handler and
\* returns the envelope {success: false, products: [], error: the message,
\* query: the query}.
C3_FailureEnvelope ==
    (\E i \in 1..Len(trace) : trace[i].outcome = "raised") =>
        /\ pc \in {"except", "done"}
        /\ pc = "except" => ENABLED Except
        /\ pc = "done" =>
              result = [success |-> FALSE, products |-> <<>>,
                        error |-> exc[1], query |-> query]

\* C3 witness: the GET of the first page raised and the call has returned.
C3_Witness ==
    /\ pc = "done" /\ Len(trace) = 1 /\ trace[1].outcome = "raised"
    /\ result.success = FALSE

\* C4: in a success envelope, total is the number of products collected,
\* products is a prefix of them, and is no longer than max_results.
C4_Truncation ==
    (pc = "done" /\ result.success) =>
        /\ result.total = Len(CollectedUpTo(Len(trace)))
        /\ IsPrefix(result.products, CollectedUpTo(Len(trace)))
        /\ Len(result.products) <= max_results
        /\ result.total >= Len(result.products)

\* C4 witness: three pages were fetched and parsed and the success envelope
\* has been returned.
C4_Witness ==
    /\ pc = "done" /\ result.success /\ Len(trace) = 3
    /\ \A i \in 1..3 : trace[i].outcome = "ok"

\* C5: a response with a status other than 200 is the last request, and the
\* call then returns a success envelope with the products of the pages
\* before it; a page after which max_results products are collected is the
\* last request too.
C5_StopConditions ==
    \A i \in 1..Len(trace) :
        /\ trace[i].outcome = "non200" =>
              /\ Len(trace) = i
              /\ pc \in {"return", "done"}
              /\ pc = "done" =>
                    /\ result.success = TRUE
                    /\ result.products = Take(CollectedUpTo(i - 1), max_results)
        /\ ( /\ trace[i].outcome \in {"ok", "parse_raised"}
             /\ Len(CollectedUpTo(i)) >= max_results ) =>
              /\ Len(trace) = i
              /\ pc \in {"return", "done"}

\* C5 witness: page 2 answered with a status other than 200 and the call
\* has returned.
C5_Witness ==
    /\ pc = "done" /\ Len(trace) = 2 /\ trace[2].outcome = "non200"
    /\ result.success

\* C6: the requests are for pages 1, 2, ... in order; there are at most 3,
\* and at most floor(max_results / 10) + 1; one sleep precedes each; and
\* pages_to_scrape is 3 for max_results = 25 and 1 for max_results = 5.
C6_Requests ==
    /\ \A i \in 1..Len(trace) : trace[i].page = i
    /\ Len(trace) <= 3
    /\ Len(trace) >= 1 => 10 * (Len(trace) - 1) <= max_results
    /\ sleeps = Len(trace) + (IF pc = "get" THEN 1 ELSE 0)
    /\ pc # "start" =>
          /\ max_results >= 20 => pages_to_scrape = 3
          /\ max_results < 20 => pages_to_scrape = (max_results \div 10) + 1
          /\ max_results = 25 => pages_to_scrape = 3
          /\ max_results = 5 => pages_to_scrape = 1

\* C6 witness: with max_results = 25 three pages were requested, after three
\* sleeps, and the call has returned.
C6_Witness ==
    /\ pc = "done" /\ max_results = 25
    /\ Len(trace) = 3 /\ sleeps = 3

=============================================================================
